---- MODULE Spec2Model ----
(***************************************************************************)
(* Model of src/qiskit.py: the "Universal Equaddle Law" script.            *)
(*                                                                         *)
(* The script is straight-line code.  It builds one QuantumCircuit (qc),   *)
(* appends gates to it section by section, calls measure_all, samples the  *)
(* circuit 1024 times and hands the frequency table to                     *)
(* check_accountability_footprint.  The four register widths are module    *)
(* level constants of the script; the model draws them from 0..MaxWidth.   *)
(*                                                                         *)
(* qc is the instruction list of the circuit (qc.data).  A gate call whose *)
(* qubit arguments are out of range or repeated raises CircuitError in the *)
(* library: nothing is appended and the script stops at that statement.    *)
(* Every gate call is taken to append the gate it names, with the label    *)
(* the script passes.  Angles are floating point constants of the script   *)
(* and are kept as the expressions that compute them.                      *)
(***************************************************************************)
EXTENDS Integers, Sequences, FiniteSets, TLC

VARIABLES
    PHASE_QUBITS,       \* width of register P            (line 18)
    EXISTENCE_QUBITS,   \* width of register E            (line 19)
    RESOURCE_QUBITS,    \* width of register R            (line 20)
    TPP_VALUE_QUBITS,   \* width of register V            (line 21)
    qc,                 \* instructions appended to the circuit so far
    pc,                 \* the next section of the script to execute
    err,                \* the exception that ended the script, or "none"
    fault,              \* the gate call that raised, or NoCall
    counts,             \* the values of the frequency table; <<>> before sampling
    threshold,          \* the threshold the caller asks for, <<num, den>>
    status,             \* the status line the evaluator printed, or "none"
    ratio,              \* max_count / total_shots as <<num, den>>, or NoRatio
    divided,            \* TRUE once max_count / total_shots was evaluated
    samplerRuns,        \* number of simulator.run calls
    evalRuns,           \* number of check_accountability_footprint calls
    run,                \* which execution of the script this is
    prev                \* what the previous execution left, or NoPrev

vars == <<PHASE_QUBITS, EXISTENCE_QUBITS, RESOURCE_QUBITS, TPP_VALUE_QUBITS,
          qc, pc, err, fault, counts, threshold, status, ratio, divided,
          samplerRuns, evalRuns, run, prev>>

widthVars == <<PHASE_QUBITS, EXISTENCE_QUBITS, RESOURCE_QUBITS, TPP_VALUE_QUBITS>>

evalVars == <<counts, threshold, status, ratio, divided, samplerRuns, evalRuns>>

(***************************************************************************)
(* Bounds of the model.                                                    *)
(***************************************************************************)
MaxWidth == 3       \* each register width ranges over 0..MaxWidth
MaxOutcomes == 8    \* distinct bitstrings the sampler may report
MaxSkew == 8        \* shots moved from the last outcome to the first
MaxEntries == 7     \* entries of a table handed directly to the evaluator
MaxCount == 3       \* largest count in such a table
MaxNeg == 1         \* most negative count in such a table is -MaxNeg
MaxRuns == 2        \* executions of the script in RerunSpec

(***************************************************************************)
(* Constants of the script.                                                *)
(***************************************************************************)
SHOTS == 1024
THRESHOLD == <<15, 100>>    \* the literal 0.15

NoCall == [name |-> "none", qubits |-> <<>>, params |-> <<>>, label |-> ""]
NoRatio == <<0, 0>>
NoPrev == [data |-> <<>>, err |-> "unset"]

(***************************************************************************)
(* Register layout, lines 23-29.                                           *)
(***************************************************************************)
TOTAL_QUBITS == PHASE_QUBITS + EXISTENCE_QUBITS + RESOURCE_QUBITS + TPP_VALUE_QUBITS
P_START == 0
E_START == P_START + PHASE_QUBITS
R_START == E_START + EXISTENCE_QUBITS
V_START == R_START + RESOURCE_QUBITS

(***************************************************************************)
(* Gate calls.  A call names the gate, its qubit indices in argument       *)
(* order, its parameters and its label.                                    *)
(***************************************************************************)
Gate(name, qubits, params, label) ==
    [name |-> name, qubits |-> qubits, params |-> params, label |-> label]

\* range(a, b) as a sequence
Range(a, b) == [i \in 1..(IF b > a THEN b - a ELSE 0) |-> a + i - 1]

\* qc.barrier(label=...) with no qubit arguments spans every qubit
Barrier(label) == Gate("barrier", Range(0, TOTAL_QUBITS), <<>>, label)

\* a single-qubit gate applied to a list of qubits is one instruction each
Broadcast(name, qubits, params, label) ==
    [i \in 1..Len(qubits) |-> Gate(name, <<qubits[i]>>, params, label)]

\* The library accepts a call when every index names a qubit of the
\* circuit and no qubit is repeated.
Accepted(call) ==
    /\ \A i \in 1..Len(call.qubits) :
          call.qubits[i] >= 0 /\ call.qubits[i] < TOTAL_QUBITS
    /\ \A i, j \in 1..Len(call.qubits) :
          i # j => call.qubits[i] # call.qubits[j]

\* Execute the calls in order on the instruction list; stop at the first
\* call the library rejects.
RECURSIVE Execute(_, _)
Execute(data, calls) ==
    IF calls = <<>> THEN [data |-> data, fault |-> NoCall]
    ELSE IF Accepted(Head(calls))
         THEN Execute(Append(data, Head(calls)), Tail(calls))
         ELSE [data |-> data, fault |-> Head(calls)]

\* One section of the script: run its calls, move on or stop.
Section(from, to, calls) ==
    /\ pc = from
    /\ LET r == Execute(qc, calls) IN
         /\ qc' = r.data
         /\ fault' = r.fault
         /\ pc' = IF r.fault = NoCall THEN to ELSE "aborted"
         /\ err' = IF r.fault = NoCall THEN "none" ELSE "CircuitError"
    /\ UNCHANGED <<widthVars, evalVars, run, prev>>

(***************************************************************************)
(* Section 2: state preparation, lines 41-66.                              *)
(***************************************************************************)
PhaseCalls ==
    Broadcast("h", Range(P_START, E_START), <<>>, "")
        \o <<Barrier("P_Infinite_Phases")>>

ExistenceCalls ==
    << Gate("cx", <<P_START, E_START>>, <<>>, ""),
       Gate("cx", <<P_START + 1, E_START + 1>>, <<>>, ""),
       Barrier("E_Existence_Entanglement") >>

ResourceCalls ==
    << Gate("cx", <<E_START, R_START>>, <<>>, ""),
       Gate("cx", <<E_START + 1, R_START + 1>>, <<>>, ""),
       Barrier("R_Equaddle_Enforcement") >>

\* mutation: a barrier between the phase rotations and the crz
EnergyCalls_split ==
    << Gate("p", <<R_START>>, <<"PHI*pi">>, "R_Phi_Infinity_Fabric_0"),
       Gate("p", <<R_START + 1>>, <<"PHI*pi">>, "R_Phi_Infinity_Fabric_1"),
       Barrier("Hyperdimensional_Energy_Layer"),
       Gate("crz", <<E_START, R_START>>, <<"MASS_CONSTANT">>, "E_MC_Waveforms_Transfer") >>

EnergyCalls ==
    << Gate("p", <<R_START>>, <<"PHI*pi">>, "R_Phi_Infinity_Fabric_0"),
       Gate("p", <<R_START + 1>>, <<"PHI*pi">>, "R_Phi_Infinity_Fabric_1"),
       Gate("crz", <<E_START, R_START>>, <<"MASS_CONSTANT">>, "E_MC_Waveforms_Transfer"),
       Barrier("Hyperdimensional_Energy_Layer") >>

PhaseSuperposition == Section("phases", "existence", PhaseCalls)

ExistenceEntanglement == Section("existence", "resource", ExistenceCalls)

EquaddleEnforcement == Section("resource", "energy", ResourceCalls)

HyperdimensionalEnergyLayer == Section("energy", "birth", EnergyCalls)

(***************************************************************************)
(* Section 3: birth_proclamation_circuit, lines 71-96.                     *)
(***************************************************************************)
\* mutation: the entity index taken from a counter that survives a run
EntityIndex_counter == run

EntityIndex == 1

\* mutation: the closing barrier of the function left out
BirthCalls_open(entity_index) ==
    << Gate("x", <<V_START + 1>>, <<>>, ""),
       Barrier("V_TPP_Proclamation_" \o ToString(entity_index)),
       Gate("cx", <<E_START, V_START>>, <<>>, ""),
       Gate("cx", <<E_START + 1, V_START + 1>>, <<>>, ""),
       Gate("rx", <<V_START>>, <<"pi/sqrt(5)">>, "V_Hyperdimensional_Rx"),
       Gate("rz", <<V_START + 1>>, <<"PNEUMATIC_DENSITY">>, "V_Pneumatic_Macro_Density") >>


BirthCalls(entity_index) ==
    << Gate("x", <<V_START + 1>>, <<>>, ""),
       Barrier("V_TPP_Proclamation_" \o ToString(entity_index)),
       Gate("cx", <<E_START, V_START>>, <<>>, ""),
       Gate("cx", <<E_START + 1, V_START + 1>>, <<>>, ""),
       Gate("rx", <<V_START>>, <<"pi/sqrt(5)">>, "V_Hyperdimensional_Rx"),
       Gate("rz", <<V_START + 1>>, <<"PNEUMATIC_DENSITY">>, "V_Pneumatic_Macro_Density"),
       Barrier("") >>

birth_proclamation_circuit == Section("birth", "trade", BirthCalls(EntityIndex))

(***************************************************************************)
(* Section 4: apply_trade_barter, lines 101-112.                           *)
(***************************************************************************)
TradeCalls ==
    << Gate("cswap", <<V_START, R_START, R_START + 1>>, <<>>, "TPP_Trade_Barter_CSWAP"),
       Barrier("R_Value_Exchange_Final") >>

apply_trade_barter == Section("trade", "measure", TradeCalls)

(***************************************************************************)
(* Section 5: measure_all, line 118.  The library appends an unlabelled    *)
(* barrier and one measurement per qubit.                                  *)
(***************************************************************************)
MeasureCalls ==
    <<Barrier("")>> \o Broadcast("measure", Range(0, TOTAL_QUBITS), <<>>, "")

measure_all == Section("measure", "simulate", MeasureCalls)

(***************************************************************************)
(* Sampling, lines 121-125.  The simulator is outside the script; it       *)
(* returns one positive count per observed bitstring and the counts add up *)
(* to the number of shots.  The model draws the table from the even split  *)
(* of the shots over n outcomes with k shots moved from the last outcome   *)
(* to the first.                                                           *)
(***************************************************************************)
EvenSplit(n) ==
    [i \in 1..n |-> (SHOTS \div n) + (IF i <= SHOTS % n THEN 1 ELSE 0)]

Skewed(n, k) ==
    [i \in 1..n |->
        IF n = 1 THEN EvenSplit(n)[i]
        ELSE IF i = 1 THEN EvenSplit(n)[i] + k
        ELSE IF i = n THEN EvenSplit(n)[i] - k
        ELSE EvenSplit(n)[i]]

run_simulation ==
    /\ pc = "simulate"
    /\ \E n \in 1..MaxOutcomes, k \in 0..MaxSkew :
          /\ n <= 2 ^ TOTAL_QUBITS
          /\ n = 1 => k = 0
          /\ Skewed(n, k)[n] >= 1
          /\ counts' = Skewed(n, k)
    /\ samplerRuns' = samplerRuns + 1
    /\ pc' = "evaluate"
    /\ UNCHANGED <<widthVars, qc, err, fault, threshold, status, ratio,
                   divided, evalRuns, run, prev>>

(***************************************************************************)
(* check_accountability_footprint, lines 133-151.                          *)
(***************************************************************************)
\* max(counts.values()) of a non-empty table
RECURSIVE Max(_)
Max(values) ==
    IF Len(values) = 1 THEN values[1]
    ELSE LET m == Max(Tail(values)) IN
           IF values[1] >= m THEN values[1] ELSE m

\* sum(counts.values())
RECURSIVE Sum(_)
Sum(values) ==
    IF values = <<>> THEN 0 ELSE values[1] + Sum(Tail(values))

\* mutation: the comparison of line 142 made with >=
Exceeds_geq(max_count, total_shots, th) ==
    IF total_shots > 0
    THEN max_count * th[2] >= th[1] * total_shots
    ELSE max_count * th[2] <= th[1] * total_shots

\* max_count / total_shots > th for total_shots # 0 and th = <<num, den>>
\* with den > 0.  The script compares doubles; the quotient of two integers
\* is correctly rounded, so for totals below 2^50 the comparison agrees
\* with the comparison of the exact fractions made here.
Exceeds(max_count, total_shots, th) ==
    IF total_shots > 0
    THEN max_count * th[2] > th[1] * total_shots
    ELSE max_count * th[2] < th[1] * total_shots

Evaluate(at) ==
    /\ pc \in at
    /\ evalRuns' = evalRuns + 1
    /\ IF counts = <<>>
       THEN \* max() of an empty sequence raises ValueError (line 138)
            /\ err' = "ValueError"
            /\ pc' = "aborted"
            /\ UNCHANGED <<status, ratio, divided>>
       ELSE LET max_count == Max(counts)
                total_shots == Sum(counts)
            IN IF total_shots = 0
               THEN \* the division of line 142 raises ZeroDivisionError
                    /\ err' = "ZeroDivisionError"
                    /\ pc' = "aborted"
                    /\ divided' = TRUE
                    /\ UNCHANGED <<status, ratio>>
               ELSE /\ divided' = TRUE
                    /\ ratio' = <<max_count, total_shots>>
                    /\ status' = IF Exceeds(max_count, total_shots, THRESHOLD)
                                 THEN "FLUX DETECTED"
                                 ELSE "ABSOLUTE"
                    /\ err' = "none"
                    /\ pc' = "done"
    /\ UNCHANGED <<widthVars, qc, fault, counts, threshold, samplerRuns, run, prev>>

\* mutation: the call of line 151 placed before the sampling of line 123
check_accountability_footprint_early == Evaluate({"simulate", "evaluate"})

\* the call of line 151
check_accountability_footprint == Evaluate({"evaluate"})

Init ==
    /\ PHASE_QUBITS \in 0..MaxWidth
    /\ EXISTENCE_QUBITS \in 0..MaxWidth
    /\ RESOURCE_QUBITS \in 0..MaxWidth
    /\ TPP_VALUE_QUBITS \in 0..MaxWidth
    /\ qc = <<>>
    /\ pc = "phases"
    /\ err = "none"
    /\ fault = NoCall
    /\ counts = <<>>
    /\ threshold = THRESHOLD
    /\ status = "none"
    /\ ratio = NoRatio
    /\ divided = FALSE
    /\ samplerRuns = 0
    /\ evalRuns = 0
    /\ run = 1
    /\ prev = NoPrev

Next ==
    \/ PhaseSuperposition
    \/ ExistenceEntanglement
    \/ EquaddleEnforcement
    \/ HyperdimensionalEnergyLayer
    \/ birth_proclamation_circuit
    \/ apply_trade_barter
    \/ measure_all
    \/ run_simulation
    \/ check_accountability_footprint

Spec == Init /\ [][Next]_vars

(***************************************************************************)
(* The evaluator on its own: the table and the requested threshold are     *)
(* drawn from bounded sets and the function is applied once.  max and sum  *)
(* do not depend on the order of the dict, so each table is listed once,   *)
(* largest count first.                                                    *)
(***************************************************************************)
RECURSIVE TablesOf(_, _)
TablesOf(n, hi) ==
    IF n = 0 THEN {<<>>}
    ELSE UNION {{<<c>> \o t : t \in TablesOf(n - 1, c)} : c \in (0 - MaxNeg)..hi}

Tables == UNION {TablesOf(n, MaxCount) : n \in 0..MaxEntries}

Thresholds == {<<15, 100>>, <<1, 2>>, <<1, 1>>}

EvalInit ==
    /\ PHASE_QUBITS = 2
    /\ EXISTENCE_QUBITS = 2
    /\ RESOURCE_QUBITS = 2
    /\ TPP_VALUE_QUBITS = 2
    /\ qc = <<>>
    /\ pc = "evaluate"
    /\ err = "none"
    /\ fault = NoCall
    /\ counts \in Tables
    /\ threshold \in Thresholds
    /\ status = "none"
    /\ ratio = NoRatio
    /\ divided = FALSE
    /\ samplerRuns = 0
    /\ evalRuns = 0
    /\ run = 1
    /\ prev = NoPrev

EvalNext == check_accountability_footprint

EvalSpec == EvalInit /\ [][EvalNext]_vars

(***************************************************************************)
(* The script executed again with the same widths: every module level name *)
(* is bound afresh (line 31 constructs a new circuit); prev keeps what the *)
(* finished execution produced.                                            *)
(***************************************************************************)
Restart ==
    /\ pc \in {"done", "aborted"}
    /\ run < MaxRuns
    /\ prev' = [data |-> qc, err |-> err]
    /\ run' = run + 1
    /\ qc' = <<>>
    /\ pc' = "phases"
    /\ err' = "none"
    /\ fault' = NoCall
    /\ counts' = <<>>
    /\ status' = "none"
    /\ ratio' = NoRatio
    /\ divided' = FALSE
    /\ samplerRuns' = 0
    /\ evalRuns' = 0
    /\ UNCHANGED <<widthVars, threshold>>

RerunNext ==
    \/ Next
    \/ Restart

RerunSpec == Init /\ [][RerunNext]_vars

(***************************************************************************)
(* Vocabulary of the properties.                                           *)
(***************************************************************************)
\* widths the specification calls valid: all positive and all equal
ValidWidths ==
    /\ PHASE_QUBITS >= 1
    /\ EXISTENCE_QUBITS = PHASE_QUBITS
    /\ RESOURCE_QUBITS = PHASE_QUBITS
    /\ TPP_VALUE_QUBITS = PHASE_QUBITS

\* the composition (sections 2-4 of the script) has run to its end
Composed == pc \in {"measure", "simulate", "evaluate", "done"}

\* the sequence has been handed to the sampler
HandedOver == pc \in {"evaluate", "done"}

IsBarrier(g) == g.name = "barrier"

IsGate(g) == g.name \notin {"barrier", "measure"}

Barriers(data) == SelectSeq(data, IsBarrier)

Gates(data) == SelectSeq(data, IsGate)

Shapes(data) == [i \in 1..Len(data) |-> <<data[i].name, data[i].qubits>>]

IsPrefix(s, t) == Len(s) <= Len(t) /\ \A i \in 1..Len(s) : s[i] = t[i]

InRange(g) ==
    /\ \A i \in 1..Len(g.qubits) : g.qubits[i] \in 0..(TOTAL_QUBITS - 1)
    /\ \A i, j \in 1..Len(g.qubits) : i # j => g.qubits[i] # g.qubits[j]

\* for each barrier of the sequence: the name of the instruction right
\* before it ("start" for none) and its label
BarrierPlaces(data) ==
    LET IsAt(i) == data[i].name = "barrier"
        at == SelectSeq([i \in 1..Len(data) |-> i], IsAt)
    IN [k \in 1..Len(at) |->
          << IF at[k] = 1 THEN "start" ELSE data[at[k] - 1].name,
             data[at[k]].label >>]

\* a largest count of the table, found by search
Largest(values) ==
    CHOOSE m \in {values[i] : i \in 1..Len(values)} :
        \A i \in 1..Len(values) : values[i] <= m

Evaluated == evalRuns >= 1

ProperTable ==
    /\ counts # <<>>
    /\ \A i \in 1..Len(counts) : counts[i] >= 0
    /\ Sum(counts) > 0

(***************************************************************************)
(* C1 as stated: for a non-empty table of non-negative counts with a       *)
(* positive total the evaluator yields ratio = max / sum and reports       *)
(* CONCENTRATED (the FLUX DETECTED line) exactly when the ratio is above   *)
(* the threshold the caller supplied, FRAGMENTED (ABSOLUTE) otherwise.     *)
(***************************************************************************)
C1_CallerThreshold ==
    (Evaluated /\ ProperTable) =>
        /\ ratio = <<Largest(counts), Sum(counts)>>
        /\ status \in {"FLUX DETECTED", "ABSOLUTE"}
        /\ status = "FLUX DETECTED" <=>
               ratio[1] * threshold[2] > threshold[1] * ratio[2]

(***************************************************************************)
(* C1 amended: the same, with the threshold fixed at 0.15 whatever the     *)
(* caller asked for; a ratio of exactly 0.15 is reported FRAGMENTED.       *)
(***************************************************************************)
C1_FixedThreshold ==
    (Evaluated /\ ProperTable) =>
        /\ err = "none"
        /\ ratio = <<Largest(counts), Sum(counts)>>
        /\ status \in {"FLUX DETECTED", "ABSOLUTE"}
        /\ status = "FLUX DETECTED" <=> 20 * ratio[1] > 3 * ratio[2]

\* a table whose ratio is exactly 0.15 was evaluated for a caller who asked
\* for another threshold
C1_Witness ==
    /\ Evaluated /\ ProperTable
    /\ 20 * Largest(counts) = 3 * Sum(counts)
    /\ threshold # THRESHOLD
    /\ status = "ABSOLUTE"

(***************************************************************************)
(* C2: for a table with no entries or with counts summing to zero the      *)
(* evaluator fails, never evaluates max / sum and reports no               *)
(* classification.  (The name of the failure is left open here.)           *)
(***************************************************************************)
C2_NoDivisionByZero ==
    (Evaluated /\ (counts = <<>> \/ Sum(counts) = 0)) =>
        /\ err # "none"
        /\ ~divided
        /\ status = "none"

(***************************************************************************)
(* C3: for a table with a negative count the evaluator fails and reports   *)
(* no classification.  (The name of the failure is left open here.)        *)
(***************************************************************************)
C3_NegativeCountRejected ==
    (Evaluated /\ \E i \in 1..Len(counts) : counts[i] < 0) =>
        /\ err # "none"
        /\ status = "none"

(***************************************************************************)
(* C4: for widths that are not all positive and equal no operation is      *)
(* emitted at all.                                                         *)
(***************************************************************************)
C4_InvalidLayoutEmitsNothing ==
    ~ValidWidths => (qc = <<>> /\ ~Composed)

(***************************************************************************)
(* C5 as stated: for valid widths the sequence handed to the sampler       *)
(* contains exactly 7 barriers.                                            *)
(***************************************************************************)
C5_SevenBarriers ==
    (ValidWidths /\ (pc = "simulate" \/ HandedOver)) => Len(Barriers(qc)) = 7

(***************************************************************************)
(* C5 amended: the composition emits exactly 7 barriers and measure_all    *)
(* adds one, so the sequence handed to the sampler contains exactly 8,     *)
(* whatever the register widths.                                           *)
(***************************************************************************)
C5_EightBarriers ==
    /\ pc = "measure" => Len(Barriers(qc)) = 7
    /\ (pc = "simulate" \/ HandedOver) => Len(Barriers(qc)) = 8

\* a sequence for valid widths other than the reference 2,2,2,2 was handed
\* over
C5_Witness ==
    /\ HandedOver
    /\ ValidWidths
    /\ PHASE_QUBITS = 3
    /\ Len(Barriers(qc)) = 8

(***************************************************************************)
(* C6: for valid widths every bit index an operation of the composition    *)
(* refers to lies in 0..total-1 and the bits of one operation are          *)
(* distinct.  The operations are those appended and the one the library    *)
(* refused, if any.                                                        *)
(***************************************************************************)
C6_IndicesInRange ==
    ValidWidths =>
        /\ \A i \in 1..Len(qc) : InRange(qc[i])
        /\ InRange(fault)

(***************************************************************************)
(* C7: for a valid common width w the operations other than barriers are   *)
(* emitted in the order of the seven stages, every coupling index for      *)
(* index over 0..w-1.                                                      *)
(***************************************************************************)
C7_Expected ==
    LET w == PHASE_QUBITS
        Each(name, from, to) ==
            [i \in 1..w |-> IF from = to THEN <<name, <<from + i - 1>>>>
                            ELSE <<name, <<from + i - 1, to + i - 1>>>>]
    IN Each("h", P_START, P_START)
       \o Each("cx", P_START, E_START)
       \o Each("cx", E_START, R_START)
       \o Each("p", R_START, R_START)
       \o << <<"crz", <<E_START, R_START>>>>,
             <<"x", <<V_START + 1>>>> >>
       \o Each("cx", E_START, V_START)
       \o << <<"rx", <<V_START>>>>,
             <<"rz", <<V_START + 1>>>>,
             <<"cswap", <<V_START, R_START, R_START + 1>>>> >>

C7_StageOrder ==
    ValidWidths =>
        /\ pc # "aborted"
        /\ IsPrefix(Shapes(Gates(qc)), C7_Expected)
        /\ Composed => Shapes(Gates(qc)) = C7_Expected

C9_BarrierPerStage ==
    (ValidWidths /\ pc = "measure") =>
        /\ [k \in 1..Len(BarrierPlaces(qc)) |-> BarrierPlaces(qc)[k][1]]
              = <<"h", "cx", "cx", "p", "crz", "rz", "cswap">>
        /\ \A k \in 1..Len(BarrierPlaces(qc)) : BarrierPlaces(qc)[k][2] # ""

(***************************************************************************)
(* C9 amended: barriers directly follow the last operation of stages 1, 2, *)
(* 3, 5, 6 and 7; stages 4 and 5 share one barrier, a labelled barrier     *)
(* follows the basis flip inside stage 6, and the barrier closing stage 6  *)
(* has no label.                                                           *)
(***************************************************************************)
C9_BarrierPlaces ==
    pc = "measure" =>
        BarrierPlaces(qc) =
            << <<"h", "P_Infinite_Phases">>,
               <<"cx", "E_Existence_Entanglement">>,
               <<"cx", "R_Equaddle_Enforcement">>,
               <<"crz", "Hyperdimensional_Energy_Layer">>,
               <<"x", "V_TPP_Proclamation_1">>,
               <<"rz", "">>,
               <<"cswap", "R_Value_Exchange_Final">> >>

\* the composition has ended for the reference widths
C9_Witness ==
    /\ pc = "measure"
    /\ ValidWidths
    /\ TOTAL_QUBITS = 8
    /\ Len(BarrierPlaces(qc)) = 7

(***************************************************************************)
(* C10: the sampler runs at most once and only on the completed sequence,  *)
(* its table sums to the shot count, the evaluator runs at most once and   *)
(* only after the sampler; after sampling the sequence is not extended and *)
(* the table does not change.                                              *)
(***************************************************************************)
StagesFinished(data) ==
    /\ \A name \in {"h", "cx", "p", "crz", "x", "rx", "rz", "cswap"} :
          \E i \in 1..Len(data) : data[i].name = name
    /\ Len(SelectSeq(data, LAMBDA g : g.name = "measure")) = TOTAL_QUBITS

C10_PipelineOrder ==
    /\ [](/\ samplerRuns <= 1
          /\ evalRuns <= 1
          /\ evalRuns = 1 => samplerRuns = 1
          /\ samplerRuns = 1 => (Sum(counts) = SHOTS /\ StagesFinished(qc))
          /\ pc = "done" => (samplerRuns = 1 /\ evalRuns = 1))
    /\ [][/\ samplerRuns' > samplerRuns => StagesFinished(qc)
          /\ samplerRuns >= 1 => (qc' = qc /\ counts' = counts)]_vars

\* a run went through sampling and evaluation
C10_Witness ==
    /\ pc = "done"
    /\ samplerRuns = 1
    /\ evalRuns = 1
    /\ status = "ABSOLUTE"
    /\ Sum(counts) = SHOTS

====
